---- MODULE Spec2Model ----
(***************************************************************************)
(* Explicit finite-difference diffusion on a raster grid, as written in    *)
(* fault_scarp/landlab-fault-scarp-unexpanded.ipynb: the grid, its node    *)
(* status array, the elevation field z, the link field qs and the time     *)
(* loop  g -> qs -> dqsdx -> dzdt -> z.                                    *)
(*                                                                         *)
(* Numbers.  The notebook computes with reals.  Here every field value is  *)
(* an integer number of 1/Unit, where Unit is chosen so that each division *)
(* the loop body performs (by dx, by 10 for D, by the cell area) is exact  *)
(* for MaxSteps iterations.  D is held in hundredths (D = 1 means          *)
(* 0.01 m2/yr), dt and dx are integers.                                    *)
(*                                                                         *)
(* The module also holds the field store of                                *)
(* fields/working_with_fields.ipynb (arrays, the names bound to them and   *)
(* the grid's node fields) and the driver loop of                          *)
(* component_tutorial/component_tutorial_unexpanded.ipynb.                 *)
(***************************************************************************)
EXTENDS Integers, FiniteSets, Sequences, TLC

VARIABLES nrows, ncols, dx, status, z, qs, g, dqsdx, dzdt, D, dt, i, pc,
          nt, total_t, uplift_rate, out,
          heap, at_node, names, err,
          initial_roughness, uplift_per_step, run, calls,
          interval_duration, rainfall_rate, elapsed_time, last_trunc

\* the storm generator's current pair, its clock and the last plotted interval
stormVars == <<interval_duration, rainfall_rate, elapsed_time, last_trunc>>

\* the saved initial field, the uplift of one fixed step, the loop that is
\* running and the component calls made in its current pass
coupledVars == <<initial_roughness, uplift_per_step, run, calls, stormVars>>

\* the driver's run length, its uplift rate and what it has printed
driverVars == <<total_t, uplift_rate, out, coupledVars>>

\* the arrays, the grid's node fields, the Python names and the last error
storeVars == <<heap, at_node, names, err>>

vars == <<nrows, ncols, dx, status, z, qs, g, dqsdx, dzdt, D, dt, i, pc,
          nt, driverVars, storeVars>>

(***************************************************************************)
(* Bounds of the model.                                                    *)
(***************************************************************************)
\* iterations of the time loop that are explored (the notebook runs 25)
MaxSteps == 2
\* largest initial elevation of a core node, in whole metres
MaxZ == 2

(***************************************************************************)
(* Node status codes.                                                      *)
(***************************************************************************)
CORE_NODE == 0
FIXED_VALUE_BOUNDARY == 1
CLOSED_BOUNDARY == 4

(***************************************************************************)
(* Input sets.                                                             *)
(***************************************************************************)
\* (rows, columns) of the grids explored with arbitrary core elevations
GridShapes == {<<3, 4>>, <<4, 3>>}
\* grids explored with every boundary closed
ClosedShapes == {<<3, 3>>, <<4, 4>>}
\* grids explored with a single perturbed node
PerturbShapes == {<<4, 4>>, <<5, 5>>}
\* grid spacings
DxValues == {1, 2}
\* transport coefficients, in hundredths: -0.1, 0, 0.1, 0.2
DValues == {-10, 0, 10, 20}
\* dt as a multiple of the Courant step: negative, zero, the bound, 5x the bound
DtFactors == {-1, 0, 1, 5}
\* the (D, dt factor, dx) combinations explored
ParamChoices ==
    {p \in DValues \X DtFactors \X DxValues :
        /\ p[1] > 0 \/ p[2] \in {-1, 1}
        /\ p[3] = 1 \/ (p[1] = 10 /\ p[2] \in {1, 5})}
\* D is held in hundredths
DDen == 100

Abs(x) == IF x < 0 THEN -x ELSE x

Max2(a, b) == IF a >= b THEN a ELSE b

RECURSIVE Pow(_, _)
Pow(b, e) == IF e = 0 THEN 1 ELSE b * Pow(b, e - 1)

MaxDx == CHOOSE m \in DxValues : \A d \in DxValues : d <= m

\* the transport coefficients explored are whole multiples of DGrain
DGrain ==
    CHOOSE k \in 1 .. DDen :
        /\ \A d \in DValues : d % k = 0
        /\ \A j \in 1 .. DDen : (\A d \in DValues : d % j = 0) => j <= k

\* one metre of elevation, in field units
Unit == Pow((DDen \div DGrain) * MaxDx * MaxDx, MaxSteps)

(***************************************************************************)
(* RasterModelGrid((R, C), dx): nodes are numbered row by row from the     *)
(* bottom left; links are numbered row by row, the C-1 horizontal links of *)
(* a row first, then the C vertical links that leave that row upwards.     *)
(***************************************************************************)
NodesOf(R, C) == 0 .. (R * C - 1)

RowOf(n, C) == n \div C

ColOf(n, C) == n % C

IsPerimeter(n, R, C) ==
    \/ RowOf(n, C) = 0
    \/ RowOf(n, C) = R - 1
    \/ ColOf(n, C) = 0
    \/ ColOf(n, C) = C - 1

InteriorOf(R, C) == {n \in NodesOf(R, C) : ~IsPerimeter(n, R, C)}

NumLinks(R, C) == R * (C - 1) + (R - 1) * C

LinksOf(R, C) == 0 .. (NumLinks(R, C) - 1)

HorizLink(r, c, C) == r * (2 * C - 1) + c

VertLink(r, c, C) == r * (2 * C - 1) + (C - 1) + c

IsHoriz(l, C) == (l % (2 * C - 1)) < C - 1

TailOf(l, C) ==
    IF IsHoriz(l, C)
    THEN (l \div (2 * C - 1)) * C + (l % (2 * C - 1))
    ELSE (l \div (2 * C - 1)) * C + ((l % (2 * C - 1)) - (C - 1))

HeadOf(l, C) == IF IsHoriz(l, C) THEN TailOf(l, C) + 1 ELSE TailOf(l, C) + C

Nodes == NodesOf(nrows, ncols)

Links == LinksOf(nrows, ncols)

node_at_link_tail(l) == TailOf(l, ncols)

node_at_link_head(l) == HeadOf(l, ncols)

(***************************************************************************)
(* Boundary conditions.                                                    *)
(***************************************************************************)
\* a new grid: perimeter nodes are fixed-value (open) boundaries, the rest core
DefaultStatus(R, C) ==
    [n \in NodesOf(R, C) |->
        IF IsPerimeter(n, R, C) THEN FIXED_VALUE_BOUNDARY ELSE CORE_NODE]

\* mg.set_closed_boundaries_at_grid_edges(east, north, west, south)
set_closed_boundaries_at_grid_edges(st, R, C, east, north, west, south) ==
    [n \in NodesOf(R, C) |->
        IF \/ east /\ ColOf(n, C) = C - 1
           \/ north /\ RowOf(n, C) = R - 1
           \/ west /\ ColOf(n, C) = 0
           \/ south /\ RowOf(n, C) = 0
        THEN CLOSED_BOUNDARY
        ELSE st[n]]

\* mg.status_at_node[n] = s
set_status_at_node(st, n, s) == [st EXCEPT ![n] = s]

\* the boundary classifications explored: every choice of closed grid edges,
\* and one interior node reclassified on the grid with open edges
EdgeStatusChoices(R, C) ==
    {set_closed_boundaries_at_grid_edges(DefaultStatus(R, C), R, C, e[1], e[2], e[3], e[4]) :
        e \in BOOLEAN \X BOOLEAN \X BOOLEAN \X BOOLEAN}

StatusChoices(R, C) ==
    EdgeStatusChoices(R, C) \cup
    {set_status_at_node(DefaultStatus(R, C), n, s) :
        n \in InteriorOf(R, C), s \in {FIXED_VALUE_BOUNDARY, CLOSED_BOUNDARY}}

core_nodes == {n \in Nodes : status[n] = CORE_NODE}

\* slip: any link with a core end counts as active, closed neighbour or not
IsActiveAnyCore(st, l, C) ==
    \/ st[TailOf(l, C)] = CORE_NODE
    \/ st[HeadOf(l, C)] = CORE_NODE

\* slip: links between two open boundary nodes count as active
IsActiveNoClosedEnd(st, l, C) ==
    /\ st[TailOf(l, C)] # CLOSED_BOUNDARY
    /\ st[HeadOf(l, C)] # CLOSED_BOUNDARY

\* a link is active when it is not connected to a closed boundary and does
\* not connect two boundary nodes
IsActive(st, l, C) ==
    /\ st[TailOf(l, C)] # CLOSED_BOUNDARY
    /\ st[HeadOf(l, C)] # CLOSED_BOUNDARY
    /\ \/ st[TailOf(l, C)] = CORE_NODE
       \/ st[HeadOf(l, C)] = CORE_NODE

active_links == {l \in Links : IsActive(status, l, ncols)}

(***************************************************************************)
(* Fields.                                                                 *)
(***************************************************************************)
\* slip: the flux field is created with add_ones
add_ones_link(R, C) == [l \in LinksOf(R, C) |-> 1]

\* mg.add_zeros('link', ...)
add_zeros_link(R, C) == [l \in LinksOf(R, C) |-> 0]

\* a name that has not been assigned yet
Unbound == <<>>

(***************************************************************************)
(* Grid operators used by the loop body.                                   *)
(***************************************************************************)
\* slip: the difference is taken from head to tail
calc_grad_reversed(zz) ==
    [l \in Links |-> (zz[node_at_link_tail(l)] - zz[node_at_link_head(l)]) \div dx]

\* slip: the difference is not divided by the link length
calc_grad_unscaled(zz) ==
    [l \in Links |-> zz[node_at_link_head(l)] - zz[node_at_link_tail(l)]]

\* mg.calc_grad_at_link(z): (value at head - value at tail) / link length
calc_grad_at_link(zz) ==
    [l \in Links |-> (zz[node_at_link_head(l)] - zz[node_at_link_tail(l)]) \div dx]

\* slip: the flux through the west face is counted as leaving
NetOutfluxSignSlip(q, n) ==
    LET r == RowOf(n, ncols)
        c == ColOf(n, ncols)
    IN  q[HorizLink(r, c, ncols)] + q[VertLink(r, c, ncols)]
        + q[HorizLink(r, c - 1, ncols)] - q[VertLink(r - 1, c, ncols)]

\* slip: the south face is left out
NetOutfluxNoSouth(q, n) ==
    LET r == RowOf(n, ncols)
        c == ColOf(n, ncols)
    IN  q[HorizLink(r, c, ncols)] + q[VertLink(r, c, ncols)]
        - q[HorizLink(r, c - 1, ncols)]

\* flux leaving the cell of node n through its four faces
NetOutflux(q, n) ==
    LET r == RowOf(n, ncols)
        c == ColOf(n, ncols)
    IN  q[HorizLink(r, c, ncols)] + q[VertLink(r, c, ncols)]
        - q[HorizLink(r, c - 1, ncols)] - q[VertLink(r - 1, c, ncols)]

\* slip: the net outflux is not normalised by the cell
calc_flux_div_raw(q) ==
    [n \in Nodes |-> IF IsPerimeter(n, nrows, ncols) THEN 0 ELSE NetOutflux(q, n)]

\* mg.calc_flux_div_at_node(qs): net outflux through the faces of the node's
\* cell (face width dx) divided by the cell area; 0 at nodes without a cell
calc_flux_div_at_node(q) ==
    [n \in Nodes |->
        IF IsPerimeter(n, nrows, ncols)
        THEN 0
        ELSE (NetOutflux(q, n) * dx) \div (dx * dx)]

\* slip: dt = 0.6 * mg.dx * mg.dx / D
CourantDtLoose(d, spacing) == (60 * spacing * spacing) \div d

\* dt = 0.2 * mg.dx * mg.dx / D, with D in hundredths
CourantDt(d, spacing) == (20 * spacing * spacing) \div d

(***************************************************************************)
(* The time loop, one statement per action.                                *)
(***************************************************************************)
\* g = mg.calc_grad_at_link(z)
CalcGrad ==
    /\ pc = "grad"
    /\ i < nt
    /\ g' = calc_grad_at_link(z)
    /\ pc' = "flux"
    /\ UNCHANGED <<nrows, ncols, dx, status, z, qs, dqsdx, dzdt, D, dt, i,
                   nt, driverVars, storeVars>>

\* the loop is exhausted
LoopExit ==
    /\ pc = "grad"
    /\ i >= nt
    /\ pc' = "done"
    /\ UNCHANGED <<nrows, ncols, dx, status, z, qs, g, dqsdx, dzdt, D, dt, i,
                   nt, driverVars, storeVars>>

\* slip: qs[mg.active_links] = D * g[mg.active_links]
FluxValueUphill(gg, l) == (D * gg[l]) \div DDen

\* slip: qs[mg.active_links] += -D * g[mg.active_links]
FluxValueAccumulate(gg, l) == qs[l] + ((-D * gg[l]) \div DDen)

\* slip: qs[mg.active_links] = -g[mg.active_links]
FluxValueNoCoefficient(gg, l) == -gg[l]

\* the right-hand side of the flux assignment at link l
FluxValue(gg, l) == (-D * gg[l]) \div DDen

\* qs[mg.active_links] = -D * g[mg.active_links]
CalcFlux ==
    /\ pc = "flux"
    /\ qs' = [l \in Links |-> IF l \in active_links THEN FluxValue(g, l) ELSE qs[l]]
    /\ pc' = "div"
    /\ UNCHANGED <<nrows, ncols, dx, status, z, g, dqsdx, dzdt, D, dt, i,
                   nt, driverVars, storeVars>>

\* dqsdx = mg.calc_flux_div_at_node(qs)
CalcDiv ==
    /\ pc = "div"
    /\ dqsdx' = calc_flux_div_at_node(qs)
    /\ pc' = "rate"
    /\ UNCHANGED <<nrows, ncols, dx, status, z, qs, g, dzdt, D, dt, i,
                   nt, driverVars, storeVars>>

\* dzdt = -dqsdx
CalcRate ==
    /\ pc = "rate"
    /\ dzdt' = [n \in Nodes |-> -dqsdx[n]]
    /\ pc' = "update"
    /\ UNCHANGED <<nrows, ncols, dx, status, z, qs, g, dqsdx, D, dt, i,
                   nt, driverVars, storeVars>>

\* slip: z += dzdt * dt over all nodes
UpdatedNodesAll == Nodes

\* the nodes the update writes
UpdatedNodes == core_nodes

\* slip: z[mg.core_nodes] = dzdt[mg.core_nodes] * dt
UpdateValueAssign(n) == dzdt[n] * dt

\* slip: the step is clamped to the Courant step
UpdateValueClamped(n) ==
    z[n] + dzdt[n] * (IF D > 0 /\ dt > CourantDt(D, dx) THEN CourantDt(D, dx) ELSE dt)

\* slip: the rate is applied for two time steps
UpdateValueTwice(n) == z[n] + 2 * dzdt[n] * dt

\* the value node n gets from a step computed from the field zz
StepValue(zz, n) ==
    LET gg == calc_grad_at_link(zz)
        q == [l \in Links |-> IF l \in active_links THEN FluxValue(gg, l) ELSE 0]
    IN  zz[n] + (-calc_flux_div_at_node(q)[n]) * dt

\* the field after the core nodes below k were updated one after the other,
\* each from the field as the nodes before it left it
RECURSIVE SweptField(_)
SweptField(k) ==
    IF k = 0 THEN z
    ELSE LET prev == SweptField(k - 1)
         IN  IF k - 1 \in core_nodes
             THEN [prev EXCEPT ![k - 1] = StepValue(prev, k - 1)]
             ELSE prev

\* slip: the nodes are updated in place, one after the other
UpdateValueInPlace(n) == SweptField(n + 1)[n]

\* the value the update stores at node n
UpdateValue(n) == z[n] + dzdt[n] * dt

\* z[mg.core_nodes] += dzdt[mg.core_nodes] * dt
Update ==
    /\ pc = "update"
    /\ z' = [n \in Nodes |-> IF n \in UpdatedNodes THEN UpdateValue(n) ELSE z[n]]
    /\ i' = i + 1
    /\ pc' = "grad"
    /\ UNCHANGED <<nrows, ncols, dx, status, qs, g, dqsdx, dzdt, D, dt,
                   nt, driverVars, storeVars>>

Next == CalcGrad \/ CalcFlux \/ CalcDiv \/ CalcRate \/ Update \/ LoopExit

(***************************************************************************)
(* Initial states.                                                         *)
(***************************************************************************)
\* no driver has been set up
NoCoupled ==
    /\ initial_roughness = <<>>
    /\ uplift_per_step = 0
    /\ run = "none"
    /\ calls = <<>>
    /\ interval_duration = 0
    /\ rainfall_rate = 0
    /\ elapsed_time = 0
    /\ last_trunc = 0

NoDriver ==
    /\ total_t = 0
    /\ uplift_rate = 0
    /\ out = <<>>
    /\ NoCoupled

\* no array has been created and no name is bound
NoStore ==
    /\ heap = <<>>
    /\ at_node = <<>>
    /\ names = <<>>
    /\ err = ""

\* the grid, the parameters D and dt, the flux field and the loop variables;
\* the time loop is cut after MaxSteps iterations
InitSetup(R, C, statuses) ==
    /\ nrows = R
    /\ ncols = C
    /\ status \in statuses
    /\ \E p \in ParamChoices :
          /\ D = p[1]
          /\ dx = p[3]
          /\ dt = p[2] * CourantDt(IF p[1] > 0 THEN p[1] ELSE DGrain, p[3])
    /\ qs = add_zeros_link(R, C)
    /\ g = Unbound
    /\ dqsdx = Unbound
    /\ dzdt = Unbound
    /\ i = 0
    /\ pc = "grad"
    /\ nt = MaxSteps
    /\ NoDriver
    /\ NoStore

\* any elevation on the interior nodes, one elevation b on the perimeter
FieldChoices(R, C) ==
    {[n \in NodesOf(R, C) |->
         Unit * (IF IsPerimeter(n, R, C) THEN b ELSE zi[n])] :
        zi \in [InteriorOf(R, C) -> 0 .. MaxZ], b \in 0 .. 1}

\* a flat field at elevation b with one interior node p raised to PerturbValue
PerturbValue == 10

PerturbChoices(R, C) ==
    {[n \in NodesOf(R, C) |-> Unit * (IF n = p THEN PerturbValue ELSE b)] :
        p \in InteriorOf(R, C), b \in 0 .. 1}

AllClosed(R, C) ==
    {set_closed_boundaries_at_grid_edges(DefaultStatus(R, C), R, C, TRUE, TRUE, TRUE, TRUE)}

Init ==
    \E shape \in GridShapes :
        /\ InitSetup(shape[1], shape[2], StatusChoices(shape[1], shape[2]))
        /\ z \in FieldChoices(shape[1], shape[2])

InitClosed ==
    \E shape \in ClosedShapes :
        /\ InitSetup(shape[1], shape[2], AllClosed(shape[1], shape[2]))
        /\ z \in FieldChoices(shape[1], shape[2])

InitPerturb ==
    \E shape \in PerturbShapes :
        /\ InitSetup(shape[1], shape[2], EdgeStatusChoices(shape[1], shape[2]))
        /\ z \in PerturbChoices(shape[1], shape[2])

(***************************************************************************)
(* The fault-scarp run with the notebook's own grid, D, dt and loop count. *)
(* Twenty-five steps of a scarp cannot be followed in exact integers, so   *)
(* the elevation is a plane rising northwards, which the step leaves as it *)
(* is while gradients and fluxes are non-zero.                             *)
(***************************************************************************)
\* mg = RasterModelGrid((25, 40), 10.0); a 5 x 8 grid of the same spacing
\* stands for the 25 x 40 one
ScarpShape == <<5, 8>>

ScarpDx == 10

\* D = 0.01, in hundredths
ScarpD == 1

\* slip: for i in range(1, 25)
ScarpIterationsFromOne == 25 - 1

\* for i in range(25)
ScarpIterations == 25

\* elevation rising by DDen field units per unit of distance northwards
TiltedPlane(R, C, spacing) == [n \in NodesOf(R, C) |-> RowOf(n, C) * spacing * DDen]

InitScarp ==
    /\ nrows = ScarpShape[1]
    /\ ncols = ScarpShape[2]
    /\ dx = ScarpDx
    /\ status = set_closed_boundaries_at_grid_edges(
                    DefaultStatus(ScarpShape[1], ScarpShape[2]),
                    ScarpShape[1], ScarpShape[2], TRUE, FALSE, TRUE, FALSE)
    /\ z = TiltedPlane(ScarpShape[1], ScarpShape[2], ScarpDx)
    /\ D = ScarpD
    /\ dt = CourantDt(ScarpD, ScarpDx)
    /\ qs = add_zeros_link(ScarpShape[1], ScarpShape[2])
    /\ g = Unbound
    /\ dqsdx = Unbound
    /\ dzdt = Unbound
    /\ i = 0
    /\ pc = "grad"
    /\ nt = ScarpIterations
    /\ NoDriver
    /\ NoStore

(***************************************************************************)
(* The field store of fields/working_with_fields.ipynb: numpy arrays live  *)
(* in heap, a Python name or a grid field holds the index of an array.     *)
(***************************************************************************)
\* arrays that may be allocated
MaxArrays == 2

\* the Python names and the field names used
PyNames == {"z", "input_array", "no_1c"}

FieldNames == {"field__number_one"}

\* the values written into arrays
FillValues == {0, -1}

\* mg = RasterModelGrid((3, 4), 1.)
StoreShape == <<3, 4>>

StoreNodes == NodesOf(StoreShape[1], StoreShape[2])

\* np.zeros, np.ones, an array holding v everywhere
Filled(v) == [n \in StoreNodes |-> v]

\* np.arange(mg.number_of_nodes, dtype=float)
arange == [n \in StoreNodes |-> n]

\* d[key] = val
Bind(d, key, val) == [k \in DOMAIN d \cup {key} |-> IF k = key THEN val ELSE d[k]]

\* every variable of the diffusion loop and of the driver
loopVars == <<nrows, ncols, dx, status, z, qs, g, dqsdx, dzdt, D, dt, i, pc, nt, driverVars>>

\* slip: the noclobber flag is not consulted
MustRaiseAlways(noclobber, name) == name \in DOMAIN at_node

\* if noclobber and name in self: raise FieldError
MustRaise(noclobber, name) == noclobber /\ name \in DOMAIN at_node

\* the statement raises FieldError and has no other effect
RaiseFieldError ==
    /\ err' = "FieldError"
    /\ UNCHANGED <<heap, at_node, names>>

\* var = mg.add_field('node', name, src, copy=copy, noclobber=noclobber),
\* where src is a name bound to an array
add_field(var, name, src, copy, noclobber) ==
    /\ pc = "store"
    /\ src \in DOMAIN names
    /\ IF MustRaise(noclobber, name)
       THEN RaiseFieldError
       ELSE /\ copy => Len(heap) < MaxArrays
            /\ heap' = IF copy THEN Append(heap, heap[names[src]]) ELSE heap
            /\ LET a == IF copy THEN Len(heap) + 1 ELSE names[src]
               IN  /\ at_node' = Bind(at_node, name, a)
                   /\ names' = Bind(names, var, a)
            /\ err' = ""
    /\ UNCHANGED loopVars

\* var = mg.add_zeros('node', name, noclobber=noclobber), and add_ones
add_filled(var, name, v, noclobber) ==
    /\ pc = "store"
    /\ IF MustRaise(noclobber, name)
       THEN RaiseFieldError
       ELSE /\ Len(heap) < MaxArrays
            /\ heap' = Append(heap, Filled(v))
            /\ at_node' = Bind(at_node, name, Len(heap) + 1)
            /\ names' = Bind(names, var, Len(heap) + 1)
            /\ err' = ""
    /\ UNCHANGED loopVars

\* var = np.arange(mg.number_of_nodes, dtype=float)
new_arange(var) ==
    /\ pc = "store"
    /\ Len(heap) < MaxArrays
    /\ heap' = Append(heap, arange)
    /\ names' = Bind(names, var, Len(heap) + 1)
    /\ err' = ""
    /\ UNCHANGED at_node
    /\ UNCHANGED loopVars

\* slip: var[:] = v makes a new array and binds var to it
SliceTargetFresh(var) == Len(heap) + 1

\* the array that var[:] = ... writes into
SliceTarget(var) == names[var]

\* var[:] = v; var stays bound to the array it was bound to
slice_assign(var, v) ==
    /\ pc = "store"
    /\ var \in DOMAIN names
    /\ heap' = [k \in DOMAIN heap \cup {SliceTarget(var)} |->
                   IF k = SliceTarget(var) THEN Filled(v) ELSE heap[k]]
    /\ names' = Bind(names, var, SliceTarget(var))
    /\ err' = ""
    /\ UNCHANGED at_node
    /\ UNCHANGED loopVars

\* var[:] = src, where src is a name bound to an array
slice_assign_from(var, src) ==
    /\ pc = "store"
    /\ var \in DOMAIN names
    /\ src \in DOMAIN names
    /\ heap' = [k \in DOMAIN heap \cup {SliceTarget(var)} |->
                   IF k = SliceTarget(var) THEN heap[names[src]] ELSE heap[k]]
    /\ names' = Bind(names, var, SliceTarget(var))
    /\ err' = ""
    /\ UNCHANGED at_node
    /\ UNCHANGED loopVars

\* var = src, where src is a name bound to an array
rebind(var, src) ==
    /\ pc = "store"
    /\ src \in DOMAIN names
    /\ names' = Bind(names, var, names[src])
    /\ err' = ""
    /\ UNCHANGED <<heap, at_node>>
    /\ UNCHANGED loopVars

AddField ==
    \E var \in PyNames, name \in FieldNames, src \in PyNames,
       copy \in BOOLEAN, noclobber \in BOOLEAN :
        add_field(var, name, src, copy, noclobber)

AddFilled ==
    \E var \in PyNames, name \in FieldNames, v \in FillValues, noclobber \in BOOLEAN :
        add_filled(var, name, v, noclobber)

NewArange == \E var \in PyNames : new_arange(var)

SliceAssign == \E var \in PyNames, v \in FillValues : slice_assign(var, v)

SliceAssignFrom == \E var \in PyNames, src \in PyNames : slice_assign_from(var, src)

Rebind == \E var \in PyNames, src \in PyNames : rebind(var, src)

NextStore ==
    AddField \/ AddFilled \/ NewArange \/ SliceAssign \/ SliceAssignFrom \/ Rebind

\* a new 3 x 4 grid with no field; the time loop is not used
InitStore ==
    /\ nrows = StoreShape[1]
    /\ ncols = StoreShape[2]
    /\ dx = 1
    /\ status = DefaultStatus(StoreShape[1], StoreShape[2])
    /\ z = Unbound
    /\ qs = Unbound
    /\ g = Unbound
    /\ dqsdx = Unbound
    /\ dzdt = Unbound
    /\ D = 0
    /\ dt = 0
    /\ i = 0
    /\ nt = 0
    /\ pc = "store"
    /\ NoDriver
    /\ NoStore

(***************************************************************************)
(* Properties of the diffusion step.                                       *)
(***************************************************************************)
RECURSIVE SumOver(_, _)
SumOver(S, f) ==
    IF S = {} THEN 0
    ELSE LET n == CHOOSE m \in S : TRUE IN f[n] + SumOver(S \ {n}, f)

HasClosedEnd(l) ==
    \/ status[node_at_link_tail(l)] = CLOSED_BOUNDARY
    \/ status[node_at_link_head(l)] = CLOSED_BOUNDARY

\* the nodes joined to n by an active link
ActiveNeighbours(n) ==
    {IF node_at_link_tail(l) = n THEN node_at_link_head(l) ELSE node_at_link_tail(l) :
        l \in {k \in Links : /\ n \in {node_at_link_tail(k), node_at_link_head(k)}
                             /\ IsActive(status, k, ncols)}}

MinOver(S) == CHOOSE x \in S : \A y \in S : x <= y

TopOver(S) == CHOOSE x \in S : \A y \in S : y <= x

\* the values of zz at n and at the nodes joined to n by active links
ValuesAround(zz, n) == {zz[m] : m \in ActiveNeighbours(n) \cup {n}}

\* the four nodes next to an interior node
Neighbours(n) == {n - 1, n + 1, n - ncols, n + ncols}

NoOpenBoundary == \A n \in Nodes : status[n] \in {CORE_NODE, CLOSED_BOUNDARY}

Uniform(zz) == \A n \in Nodes : zz[n] = zz[0]

\* the last completed iteration changed the value of some core node
LastStepMoved == i >= 1 /\ pc = "grad" /\ \E n \in core_nodes : dzdt[n] * dt # 0

\* C1: across every step of the loop, the value of every node that is not a
\* core node (closed or fixed-value) is left as it was; only core nodes are
\* written.
C1_BoundaryImmobility ==
    [][\A n \in Nodes : status[n] # CORE_NODE => z'[n] = z[n]]_vars

\* a step has run in which a boundary node had a non-zero rate of change
C1_Witness ==
    /\ LastStepMoved
    /\ \E n \in Nodes : status[n] # CORE_NODE /\ dzdt[n] * dt # 0

\* C2: when no boundary node is open, a step leaves the sum of the field
\* over the core nodes unchanged.
C2_Conservation ==
    [][NoOpenBoundary => SumOver(core_nodes, z') = SumOver(core_nodes, z)]_vars

C2_Witness == LastStepMoved /\ NoOpenBoundary /\ Cardinality(core_nodes) >= 4

\* C3: in every state of the loop the flux on every link that has a closed
\* boundary node at one end is zero.
C3_ClosedLinkFluxZero == \A l \in Links : HasClosedEnd(l) => qs[l] = 0

\* the flux has been computed while the field had a gradient across a link
\* with a closed end
C3_Witness ==
    /\ i >= 1
    /\ pc = "div"
    /\ D # 0
    /\ \E l \in Links : HasClosedEnd(l) /\ g[l] # 0

\* C4: a step applied to a field that has the same value at all nodes
\* leaves the field unchanged, for any dt, D and boundary classification.
C4_UniformFixedPoint == [][Uniform(z) => z' = z]_vars

C4_Witness ==
    /\ i >= 1
    /\ pc = "grad"
    /\ Uniform(z)
    /\ z[0] # 0
    /\ D # 0
    /\ dt # 0
    /\ core_nodes # {}

\* dt is positive and within the Courant bound 0.2 dx^2 / D
StableStep == D > 0 /\ dt > 0 /\ dt <= CourantDt(D, dx)

\* node m is higher than its four neighbours
IsStrictMax(zz, m) == \A k \in Neighbours(m) : zz[k] < zz[m]

\* m is the only interior node higher than its four neighbours
SingleInteriorMax(zz, m) ==
    /\ IsStrictMax(zz, m)
    /\ \A k \in InteriorOf(nrows, ncols) \ {m} : ~IsStrictMax(zz, k)

\* the gradients of the last step show that m was higher than its neighbours
WasStrictMax(m) ==
    LET r == RowOf(m, ncols)
        c == ColOf(m, ncols)
    IN  /\ g[HorizLink(r, c, ncols)] < 0
        /\ g[VertLink(r, c, ncols)] < 0
        /\ g[HorizLink(r, c - 1, ncols)] > 0
        /\ g[VertLink(r - 1, c, ncols)] > 0

\* C5 as stated: with closed boundaries and a stable dt, a step strictly
\* lowers the single interior maximum and strictly raises each of its four
\* immediate neighbours.
C5_AsStated ==
    [][(pc = "update" /\ NoOpenBoundary /\ StableStep) =>
        \A m \in core_nodes : SingleInteriorMax(z, m) =>
            /\ z'[m] < z[m]
            /\ \A k \in Neighbours(m) : z'[k] > z[k]]_vars

\* C5 amended: with closed boundaries and a stable dt, a step strictly lowers
\* the single interior maximum when it has a core neighbour, strictly raises
\* each core neighbour of the maximum none of whose own core neighbours is
\* lower than itself, and leaves the closed neighbours as they were.
C5_MonotoneSmoothing ==
    [][(pc = "update" /\ NoOpenBoundary /\ StableStep) =>
        \A m \in core_nodes : SingleInteriorMax(z, m) =>
            /\ ActiveNeighbours(m) # {} => z'[m] < z[m]
            /\ \A k \in Neighbours(m) :
                  /\ status[k] # CORE_NODE => z'[k] = z[k]
                  /\ (status[k] = CORE_NODE /\ \A j \in ActiveNeighbours(k) : z[j] >= z[k])
                        => z'[k] > z[k]]_vars

\* a stable step has lowered a node that was higher than its neighbours and
\* raised a core neighbour of it, between closed boundaries
C5_Witness ==
    /\ i >= 1
    /\ pc = "grad"
    /\ NoOpenBoundary
    /\ StableStep
    /\ \E m \in core_nodes :
          /\ WasStrictMax(m)
          /\ dzdt[m] * dt < 0
          /\ \E k \in ActiveNeighbours(m) : dzdt[k] * dt > 0
          /\ \E k \in Neighbours(m) : status[k] = CLOSED_BOUNDARY

RECURSIVE MaxOver(_, _)
MaxOver(S, f) ==
    IF S = {} THEN 0
    ELSE LET n == CHOOSE m \in S : TRUE IN Max2(f[n], MaxOver(S \ {n}, f))

\* the flat value is the value the perimeter holds
FlatValue == z[0]

\* largest absolute deviation of a field from the flat value
Magnitude(zz) == MaxOver(Nodes, [n \in Nodes |-> Abs(zz[n] - FlatValue)])

\* magnitude of the perturbation the run started with
InitialMagnitude == Abs(PerturbValue * Unit - FlatValue)

\* the node that was perturbed, while the field is still the initial one
PerturbedNode == CHOOSE n \in Nodes : z[n] # FlatValue

AtBound == D > 0 /\ dt = CourantDt(D, dx)

FiveTimesBound == D > 0 /\ dt = 5 * CourantDt(D, dx)

Scenario ==
    /\ nrows = 5
    /\ ncols = 5
    /\ dx = 1
    /\ NoOpenBoundary
    /\ D = 10
    /\ dt = 2
    /\ FlatValue = 0
    /\ i = 0
    /\ pc = "update"

\* C7: in the scenario the step lowers the perturbed node by
\* dt * D * (number of active links at it) * (its value / dx) and raises each
\* core neighbour by that loss divided by the number of active links; for
\* the centre node the loss is 8 and each of the four neighbours gains 2.
C7_EndToEnd ==
    [][Scenario =>
        LET p == PerturbedNode
            k == Cardinality(ActiveNeighbours(p))
            loss == (dt * D * k * (z[p] \div dx)) \div DDen
        IN  /\ z'[p] = z[p] - loss
            /\ \A m \in ActiveNeighbours(p) : z'[m] - z[m] = loss \div k
            /\ p = 12 =>
                  /\ z[p] - z'[p] = 8 * Unit
                  /\ \A m \in {7, 11, 13, 17} : z'[m] = 2 * Unit]_vars

\* the scenario's step has run on the centre node
C7_Witness ==
    /\ nrows = 5
    /\ ncols = 5
    /\ dx = 1
    /\ NoOpenBoundary
    /\ D = 10
    /\ dt = 2
    /\ i = 1
    /\ pc = "grad"
    /\ z[12] = 2 * Unit
    /\ z[7] = 2 * Unit
    /\ z[6] = 0

\* the explicit stencil: the value the step gives core node n, written with
\* the dt and D supplied
ExplicitStep(n) ==
    z[n] + (dt * ((D * SumOver(ActiveNeighbours(n), [m \in Nodes |-> z[m] - z[n]]))
                     \div DDen))
               \div (dx * dx)

\* C8: for every dt and D, also beyond the Courant bound and non-positive,
\* the step runs to its end and applies the update with exactly the dt and D
\* supplied, which it leaves as they are.
C8_NoEnforcement ==
    [][/\ D' = D
       /\ dt' = dt
       /\ pc = "update" =>
             /\ i' = i + 1
             /\ \A n \in core_nodes : z'[n] = ExplicitStep(n)]_vars

\* a step with dt above the Courant bound has changed the field
C8_Witness == LastStepMoved /\ D > 0 /\ dt > CourantDt(D, dx)

\* one step computed from the field alone, starting from a zero flux field
FreshStep(zz) ==
    LET gg == calc_grad_at_link(zz)
        q == [l \in Links |-> IF l \in active_links THEN (-D * gg[l]) \div DDen ELSE 0]
        dq == calc_flux_div_at_node(q)
    IN  [n \in Nodes |-> IF n \in core_nodes THEN zz[n] + (-dq[n]) * dt ELSE zz[n]]

\* C9: the field a step produces is a function of the field, the grid, the
\* boundary classification, D and dt alone: it is what a first step from the
\* same field gives, whatever the iteration count and whatever qs and g held.
C9_Stateless == [][pc = "update" => z' = FreshStep(z)]_vars

\* a second step has run with a flux field left by the first
C9_Witness ==
    /\ i >= 2
    /\ LastStepMoved
    /\ \E l \in Links : qs[l] # 0

\* the flux the current field determines on every link
FullFlux(zz) ==
    [l \in Links |->
        IF IsActive(status, l, ncols)
        THEN (-D * ((zz[node_at_link_head(l)] - zz[node_at_link_tail(l)]) \div dx)) \div DDen
        ELSE 0]

EastOf(h, t) ==
    RowOf(h, ncols) = RowOf(t, ncols) /\ ColOf(h, ncols) = ColOf(t, ncols) + 1

\* node h lies one row north of node t in the same column
NorthOf(h, t) ==
    ColOf(h, ncols) = ColOf(t, ncols) /\ RowOf(h, ncols) = RowOf(t, ncols) + 1

\* C15: once the gradient of a step has been computed, on every link it is
\* (value at the head - value at the tail) / dx, so it is positive exactly
\* when the head is higher than the tail and negative exactly when it is
\* lower; the head is the eastern end of a horizontal link and the northern
\* end of a vertical link.
C15_GradientSign ==
    pc \in {"flux", "div", "rate", "update"} =>
        \A l \in Links :
            LET t == node_at_link_tail(l)
                h == node_at_link_head(l)
            IN  /\ IF IsHoriz(l, ncols) THEN EastOf(h, t) ELSE NorthOf(h, t)
                /\ g[l] * dx = z[h] - z[t]
                /\ g[l] > 0 <=> z[h] > z[t]
                /\ g[l] < 0 <=> z[h] < z[t]

\* a gradient has been computed on a grid of spacing 2 with a rising
\* horizontal link and a falling vertical link
C15_Witness ==
    /\ pc = "flux"
    /\ i >= 1
    /\ dx = 2
    /\ \E l \in Links : IsHoriz(l, ncols) /\ g[l] > 0
    /\ \E l \in Links : ~IsHoriz(l, ncols) /\ g[l] < 0

\* one end of the link is a core node and the other is core or fixed value
CoreAndOpenEnds(l) ==
    LET a == status[node_at_link_tail(l)]
        b == status[node_at_link_head(l)]
    IN  \/ a = CORE_NODE /\ b \in {CORE_NODE, FIXED_VALUE_BOUNDARY}
        \/ b = CORE_NODE /\ a \in {CORE_NODE, FIXED_VALUE_BOUNDARY}

\* the links that have node n at one end
LinksAt(n) == {l \in Links : n \in {node_at_link_tail(l), node_at_link_head(l)}}

\* no_1b = mg.add_ones('link', ...); no_1b[mg.active_links] = 0; print(no_1b)
\* on the 3 x 4 grid with an open perimeter, as the notebook shows it
PrintedLinkField == <<1, 1, 1, 1, 0, 0, 1, 0, 0, 0, 1, 0, 0, 1, 1, 1, 1>>

\* C16: a link is active exactly when one of its ends is a core node and the
\* other is a core or fixed-value node, which is when neither end is closed
\* and the ends are not both boundary nodes; the flux is written on those
\* links only; on the 3 x 4 grid with an open perimeter the active links are
\* the 7 links at the two core nodes, links 4, 5, 7, 8, 9, 11 and 12, and
\* the other 10 are not active.
C16_ActiveLinks ==
    LET act == active_links
    IN  /\ \A l \in Links :
              /\ l \in act <=> CoreAndOpenEnds(l)
              /\ l \in act <=>
                    /\ ~HasClosedEnd(l)
                    /\ ~(/\ status[node_at_link_tail(l)] # CORE_NODE
                         /\ status[node_at_link_head(l)] # CORE_NODE)
              /\ l \notin act => qs[l] = 0
        /\ (nrows = 3 /\ ncols = 4 /\ status = DefaultStatus(3, 4)) =>
              /\ act = LinksAt(5) \cup LinksAt(6)
              /\ Cardinality(act) = 7
              /\ Cardinality(Links \ act) = 10
              /\ \A l \in Links : PrintedLinkField[l + 1] = IF l \in act THEN 0 ELSE 1

\* on the 3 x 4 grid with an open perimeter a flux has been written on the
\* link between the two core nodes and on a link to the perimeter, and every
\* other link but the seven active ones still holds its zero
C16_Witness ==
    /\ nrows = 3
    /\ ncols = 4
    /\ status = DefaultStatus(3, 4)
    /\ pc = "div"
    /\ qs[8] # 0
    /\ qs[4] # 0
    /\ \A l \in Links \ {4, 5, 7, 8, 9, 11, 12} : qs[l] = 0

\* C17: once the flux of a step has been computed, on every active link it
\* is -D * gradient; for positive D it is positive (from tail to head) when
\* the tail is higher than the head and negative (from head to tail) when
\* the head is higher, and it is zero when both ends have the same value.
C17_FluxDownhill ==
    pc \in {"div", "rate", "update"} =>
        \A l \in active_links :
            LET t == node_at_link_tail(l)
                h == node_at_link_head(l)
            IN  /\ qs[l] * DDen = -D * g[l]
                /\ D > 0 =>
                      /\ z[t] > z[h] <=> qs[l] > 0
                      /\ z[t] < z[h] <=> qs[l] < 0
                /\ z[t] = z[h] => qs[l] = 0

\* with D = 0.2 a flux has been computed that runs from the higher tail to
\* the lower head on one active link and is zero on a level one
C17_Witness ==
    /\ pc = "div"
    /\ D = 20
    /\ \E l \in active_links :
          /\ z[node_at_link_tail(l)] > z[node_at_link_head(l)]
          /\ qs[l] > 0
    /\ \E l \in active_links :
          /\ z[node_at_link_tail(l)] = z[node_at_link_head(l)]
          /\ qs[l] = 0

\* the links that leave node n and the links that arrive at it
LinksFrom(n) == {l \in Links : node_at_link_tail(l) = n}

LinksInto(n) == {l \in Links : node_at_link_head(l) = n}

\* flux leaving node n minus flux arriving at it, over its incident links
SignedFluxSum(n) == SumOver(LinksFrom(n), qs) - SumOver(LinksInto(n), qs)

\* C18: a step gives every core node its old value - dt * divergence, where
\* the divergence is the sum of the fluxes on the links that leave the node
\* minus the sum on the links that arrive at it, times the face width dx and
\* divided by the cell area dx * dx; with a forward time step (dt > 0) a
\* node with net outflux is lowered and a node with net influx is raised.
C18_UpdateRule ==
    [][pc = "update" =>
        \A n \in core_nodes :
            LET divergence == (SignedFluxSum(n) * dx) \div (dx * dx)
            IN  /\ z'[n] = z[n] - dt * divergence
                /\ (dt > 0 /\ SignedFluxSum(n) > 0) => z'[n] < z[n]
                /\ (dt > 0 /\ SignedFluxSum(n) < 0) => z'[n] > z[n]]_vars

\* on a grid of spacing 2 a forward step has lowered a core node with net
\* outflux and raised one with net influx
C18_Witness ==
    /\ i >= 1
    /\ pc = "grad"
    /\ dx = 2
    /\ dt > 0
    /\ \E n \in core_nodes : SignedFluxSum(n) > 0 /\ dzdt[n] * dt < 0
    /\ \E n \in core_nodes : SignedFluxSum(n) < 0 /\ dzdt[n] * dt > 0

\* the orders in which the nodes of S can be visited
Orders(S) ==
    {o \in [1 .. Cardinality(S) -> S] : \A a, b \in DOMAIN o : a # b => o[a] # o[b]}

\* the field after z[n] += dzdt[n] * dt was done node by node in the order o
RECURSIVE ApplyInOrder(_, _)
ApplyInOrder(zz, o) ==
    IF o = <<>> THEN zz
    ELSE ApplyInOrder([zz EXCEPT ![Head(o)] = zz[Head(o)] + dzdt[Head(o)] * dt], Tail(o))

\* C19: when the update of a step runs, the gradient, the flux and the rate
\* of change are those of the field as it still is, not yet written by the
\* step; the step gives every core node the value the explicit stencil
\* computes from that field, and the field it produces is the one obtained
\* by writing the core nodes one at a time in any order.
C19_SynchronousUpdate ==
    [][pc = "update" =>
        /\ g = calc_grad_at_link(z)
        /\ qs = FullFlux(z)
        /\ dzdt = [n \in Nodes |-> -calc_flux_div_at_node(FullFlux(z))[n]]
        /\ \A n \in core_nodes : z'[n] = ExplicitStep(n)
        /\ \A o \in Orders(core_nodes) : z' = ApplyInOrder(z, o)]_vars

\* a step has changed two core nodes joined by a link with a gradient
C19_Witness ==
    /\ i >= 1
    /\ pc = "grad"
    /\ \E l \in Links :
          /\ status[node_at_link_tail(l)] = CORE_NODE
          /\ status[node_at_link_head(l)] = CORE_NODE
          /\ g[l] # 0
          /\ dzdt[node_at_link_tail(l)] * dt # 0
          /\ dzdt[node_at_link_head(l)] * dt # 0

\* the values a field takes
RangeOf(zz) == {zz[n] : n \in Nodes}

\* C20: with D > 0 and 0 <= dt <= 0.2 dx^2 / D a step leaves every core node
\* between the lowest and the highest of the start-of-step values of itself
\* and the nodes joined to it by active links, and no step lowers the
\* minimum or raises the maximum of the field, so the field stays within
\* the range of the initial field (0 to MaxZ metres here).
C20_MaximumPrinciple ==
    /\ [][(pc = "update" /\ D > 0 /\ dt >= 0 /\ dt * D <= 20 * dx * dx) =>
            /\ \A n \in core_nodes :
                  /\ MinOver(ValuesAround(z, n)) <= z'[n]
                  /\ z'[n] <= TopOver(ValuesAround(z, n))
            /\ MinOver(RangeOf(z)) <= MinOver(RangeOf(z'))
            /\ TopOver(RangeOf(z')) <= TopOver(RangeOf(z))]_vars
    /\ []((D > 0 /\ dt >= 0 /\ dt * D <= 20 * dx * dx) =>
             \A n \in Nodes : 0 <= z[n] /\ z[n] <= MaxZ * Unit)

\* a step with dt = 0.2 dx^2 / D has changed a core node that has three
\* active links
C20_Witness ==
    /\ i >= 1
    /\ pc = "grad"
    /\ D > 0
    /\ dt * D = 20 * dx * dx
    /\ \E n \in core_nodes :
          /\ Cardinality(ActiveNeighbours(n)) = 3
          /\ dzdt[n] * dt # 0

\* the active links that join a core node to a fixed-value node
OpenBoundaryLinks ==
    {l \in Links :
        /\ IsActive(status, l, ncols)
        /\ FIXED_VALUE_BOUNDARY \in {status[node_at_link_tail(l)], status[node_at_link_head(l)]}}

\* the flux that leaves the core nodes through the links of S: a link whose
\* tail is the core node carries qs out, one whose head is the core node
\* carries qs in
OutfluxThrough(S) ==
    SumOver(S, [l \in Links |->
                   IF status[node_at_link_tail(l)] = CORE_NODE THEN qs[l] ELSE -qs[l]])

\* C21 as stated: a step changes the sum of the field over the core nodes by
\* -dt * (net flux leaving the core nodes through the active links to
\* fixed-value nodes), and leaves the fixed-value nodes as they were.
C21_AsStated ==
    [][pc = "update" =>
        /\ SumOver(core_nodes, z') - SumOver(core_nodes, z)
              = -dt * OutfluxThrough(OpenBoundaryLinks)
        /\ \A n \in Nodes : status[n] = FIXED_VALUE_BOUNDARY => z'[n] = z[n]]_vars

\* C21 amended: a step changes the sum of the field over the core nodes by
\* -dt * (net flux leaving the core nodes through the active links to
\* fixed-value nodes) * face width dx / cell area dx * dx, the flux between
\* two core nodes cancelling, and leaves the fixed-value nodes as they were.
C21_OpenMassBalance ==
    [][pc = "update" =>
        /\ (SumOver(core_nodes, z') - SumOver(core_nodes, z)) * dx * dx
              = -dt * OutfluxThrough(OpenBoundaryLinks) * dx
        /\ \A n \in Nodes : status[n] = FIXED_VALUE_BOUNDARY => z'[n] = z[n]]_vars

\* on a grid of spacing 2 with fixed-value nodes a step has moved two core
\* nodes that exchange flux, with a net flux through the open boundary
C21_Witness ==
    /\ i >= 1
    /\ pc = "grad"
    /\ dx = 2
    /\ dt # 0
    /\ OutfluxThrough(OpenBoundaryLinks) # 0
    /\ \E l \in Links :
          /\ status[node_at_link_tail(l)] = CORE_NODE
          /\ status[node_at_link_head(l)] = CORE_NODE
          /\ qs[l] # 0

(***************************************************************************)
(* The one-component driver of component_tutorial_unexpanded.ipynb: the    *)
(* LinearDiffuser component and an uplift increment in a loop of nt steps. *)
(* The component is library code; the notebook says that run_one_step(dt)  *)
(* updates the grid field and subdivides dt to stay stable.  Its result is *)
(* therefore any field that keeps the boundary nodes and leaves at each    *)
(* core node its value, or the lowest or the highest value among the node  *)
(* and the nodes joined to it by active links.                             *)
(***************************************************************************)
\* mg = RasterModelGrid((80, 80), 5.); a 3 x 3 grid of the same spacing
\* stands for the 80 x 80 one
DriverShape == <<3, 3>>

DriverDx == 5

\* linear_diffusivity = 0.2, in hundredths
DriverD == 20

DriverTotalT == 200000

DriverDt == 1000

\* uplift_rate = 0.001, in thousandths
DriverUpliftRate == 1

UpliftDen == 1000

\* left and right edges closed, then top and bottom edges fixed value
DriverStatus(R, C) ==
    LET closed == [n \in NodesOf(R, C) |->
                      IF ColOf(n, C) = 0 \/ ColOf(n, C) = C - 1
                      THEN CLOSED_BOUNDARY
                      ELSE DefaultStatus(R, C)[n]]
    IN  [n \in NodesOf(R, C) |->
            IF RowOf(n, C) = 0 \/ RowOf(n, C) = R - 1
            THEN FIXED_VALUE_BOUNDARY
            ELSE closed[n]]

\* slip: nt = int(total_t // dt) + 1
StepCountInclusive(total, step) == (total \div step) + 1

\* nt = int(total_t // dt)
StepCount(total, step) == total \div step

\* what the component may leave at core node n: its value, or the lowest or
\* the highest value around it
RelaxedValues(zz, n) ==
    {zz[n], MinOver(ValuesAround(zz, n)), TopOver(ValuesAround(zz, n))}

\* the fields lin_diffuse.run_one_step(dt) may leave
DiffuserOutcomes(zz) ==
    {[n \in Nodes |-> IF n \in core_nodes THEN f[n] ELSE zz[n]] :
        f \in {h \in [core_nodes -> UNION {RelaxedValues(zz, n) : n \in core_nodes}] :
                  \A n \in core_nodes : h[n] \in RelaxedValues(zz, n)}}

\* uplift_rate * dt, in field units
UpliftStep == (uplift_rate * dt * Unit) \div UpliftDen

storeAndFlux == <<qs, g, dqsdx, dzdt, storeVars>>

\* lin_diffuse.run_one_step(dt), the first statement of the loop body
RunDiffuser ==
    /\ pc = "diffuse"
    /\ i < nt
    /\ z' \in DiffuserOutcomes(z)
    /\ pc' = "uplift"
    /\ UNCHANGED <<nrows, ncols, dx, status, D, dt, i, nt, driverVars, storeAndFlux>>

\* range(nt) is exhausted
DriverExit ==
    /\ pc = "diffuse"
    /\ i >= nt
    /\ pc' = "done"
    /\ UNCHANGED <<nrows, ncols, dx, status, z, D, dt, i, nt, driverVars, storeAndFlux>>

\* z[mg.core_nodes] += uplift_rate * dt
AddUplift ==
    /\ pc = "uplift"
    /\ z' = [n \in Nodes |-> IF n \in core_nodes THEN z[n] + UpliftStep ELSE z[n]]
    /\ pc' = "print"
    /\ UNCHANGED <<nrows, ncols, dx, status, D, dt, i, nt, driverVars, storeAndFlux>>

\* if i % 50 == 0: print(i*dt), the last statement of the loop body
PrintProgress ==
    /\ pc = "print"
    /\ out' = IF i % 50 = 0 THEN Append(out, i * dt) ELSE out
    /\ i' = i + 1
    /\ pc' = "diffuse"
    /\ UNCHANGED <<nrows, ncols, dx, status, z, D, dt, nt, total_t, uplift_rate,
                   coupledVars, storeAndFlux>>

NextDriver == RunDiffuser \/ AddUplift \/ PrintProgress \/ DriverExit

InitDriver ==
    /\ nrows = DriverShape[1]
    /\ ncols = DriverShape[2]
    /\ dx = DriverDx
    /\ status = DriverStatus(DriverShape[1], DriverShape[2])
    /\ z = [n \in NodesOf(DriverShape[1], DriverShape[2]) |-> 0]
    /\ D = DriverD
    /\ total_t = DriverTotalT
    /\ dt = DriverDt
    /\ uplift_rate = DriverUpliftRate
    /\ nt = StepCount(DriverTotalT, DriverDt)
    /\ i = 0
    /\ out = <<>>
    /\ pc = "diffuse"
    /\ qs = Unbound
    /\ g = Unbound
    /\ dqsdx = Unbound
    /\ dzdt = Unbound
    /\ NoStore
    /\ NoCoupled

(***************************************************************************)
(* Properties of the driver.                                               *)
(***************************************************************************)
\* C13: the one-component driver makes nt = floor(total_t / dt) iterations,
\* 200 for total_t = 200000 and dt = 1000; the loop index only moves by one,
\* at the end of a body in which the diffuser ran first and the uplift was
\* added after it; when the loop has ended nt iterations have run and
\* nt * dt equals total_t, 200000 years.
C13_DriverIterations ==
    /\ [](/\ nt * dt <= total_t
          /\ total_t < (nt + 1) * dt
          /\ i <= nt
          /\ pc = "done" => (i = nt /\ i * dt = total_t /\ i * dt = 200000))
    /\ [][/\ i' # i => (i' = i + 1 /\ pc = "print" /\ pc' = "diffuse")
          /\ pc = "diffuse" => (pc' = "done" \/ (i < nt /\ pc' = "uplift"))
          /\ pc = "uplift" =>
                /\ pc' = "print"
                /\ \A n \in core_nodes : z'[n] = z[n] + Unit
                /\ \A n \in Nodes \ core_nodes : z'[n] = z[n]
          /\ pc' = "print" => pc = "uplift"]_vars

\* the loop has ended after 200 iterations, the last progress line printed
\* was that of iteration 150, and the core node stands above the boundary
C13_Witness ==
    /\ pc = "done"
    /\ i = 200
    /\ out = <<0, 50000, 100000, 150000>>
    /\ \E n \in core_nodes : z[n] >= 2 * Unit

(***************************************************************************)
(* Properties of the field store.                                          *)
(***************************************************************************)
\* the array a node field refers to
FieldArray(name) == heap[at_node[name]]

\* C11: creating a node field under a name that already exists fails with
\* FieldError when noclobber is true (the default) and then leaves the
\* store as it was; with noclobber false it succeeds and the name then refers
\* to the array that was passed (to a copy of it when copy is true), or to
\* the new array of add_zeros / add_ones.
C11_OverwriteProtection ==
    [][\A name \in FieldNames : name \in DOMAIN at_node =>
          /\ \A var \in PyNames, src \in PyNames, copy \in BOOLEAN :
                /\ add_field(var, name, src, copy, TRUE) =>
                      /\ err' = "FieldError"
                      /\ at_node' = at_node
                      /\ heap' = heap
                      /\ names' = names
                /\ add_field(var, name, src, copy, FALSE) =>
                      /\ err' = ""
                      /\ heap'[at_node'[name]] = heap[names[src]]
                      /\ ~copy => at_node'[name] = names[src]
                      /\ copy => at_node'[name] \notin DOMAIN heap
                      /\ names'[var] = at_node'[name]
          /\ \A var \in PyNames, v \in FillValues :
                /\ add_filled(var, name, v, TRUE) =>
                      /\ err' = "FieldError"
                      /\ at_node' = at_node
                      /\ heap' = heap
                      /\ names' = names
                /\ add_filled(var, name, v, FALSE) =>
                      /\ err' = ""
                      /\ at_node'[name] \notin DOMAIN heap
                      /\ heap'[at_node'[name]] = Filled(v)
                      /\ names'[var] = at_node'[name]]_vars

\* add_field without noclobber=False has just failed on an existing field:
\* the field is still the array of zeros, input_array is bound, no_1c is not
C11_Witness ==
    /\ err = "FieldError"
    /\ "field__number_one" \in DOMAIN at_node
    /\ FieldArray("field__number_one") = Filled(0)
    /\ "input_array" \in DOMAIN names
    /\ heap[names["input_array"]] = arange
    /\ "no_1c" \notin DOMAIN names

\* C14: while a name refers to the array of a node field, assigning through
\* it (z[:] = new_values, z[:] = v) changes the values the grid holds for
\* the field and leaves the name on the field; rebinding the name
\* (z = new_values) to another array leaves the grid's field as it was, and
\* assigning through a name that does not refer to the field's array does
\* not change the field.
C14_InPlaceOrRebind ==
    [][\A name \in FieldNames, var \in PyNames :
          (name \in DOMAIN at_node /\ var \in DOMAIN names) =>
             /\ names[var] = at_node[name] =>
                   /\ \A src \in PyNames :
                         /\ slice_assign_from(var, src) =>
                               /\ heap'[at_node'[name]] = heap[names[src]]
                               /\ at_node'[name] = at_node[name]
                               /\ names'[var] = at_node'[name]
                         /\ (rebind(var, src) /\ names[src] # at_node[name]) =>
                               /\ heap'[at_node'[name]] = heap[at_node[name]]
                               /\ at_node'[name] = at_node[name]
                               /\ names'[var] # at_node'[name]
                   /\ \A v \in FillValues :
                         slice_assign(var, v) =>
                               /\ heap'[at_node'[name]] = Filled(v)
                               /\ at_node'[name] = at_node[name]
                               /\ names'[var] = at_node'[name]
             /\ names[var] # at_node[name] =>
                   /\ \A src \in PyNames :
                         slice_assign_from(var, src) =>
                               heap'[at_node'[name]] = heap[at_node[name]]
                   /\ \A v \in FillValues :
                         slice_assign(var, v) =>
                               heap'[at_node'[name]] = heap[at_node[name]]]_vars

\* z was rebound to the array of input_array and -1 was written through it:
\* the field still holds its zeros
C14_Witness ==
    /\ "field__number_one" \in DOMAIN at_node
    /\ FieldArray("field__number_one") = Filled(0)
    /\ "z" \in DOMAIN names
    /\ "input_array" \in DOMAIN names
    /\ names["z"] = names["input_array"]
    /\ names["z"] # at_node["field__number_one"]
    /\ heap[names["z"]] = Filled(-1)

(***************************************************************************)
(* Properties of the fault-scarp run.                                      *)
(***************************************************************************)
\* C12: in the fault-scarp run every step uses dt = 0.2 dx^2 / D, which is
\* 2000 years for dx = 10 and D = 0.01; the loop never runs more than 25
\* steps, it ends, and when it has ended exactly 25 steps have run, which
\* makes 50000 years.
C12_FixedRunLength ==
    /\ [](/\ dt * D = 20 * dx * dx
          /\ dt = 2000
          /\ i <= 25
          /\ pc = "done" => (i = 25 /\ i * dt = 50000))
    /\ [][pc = "update" => (i' = i + 1 /\ dt' = dt)]_vars
    /\ <>(pc = "done")

\* the loop has ended after 25 steps of 2000 years, with a flux computed
C12_Witness ==
    /\ pc = "done"
    /\ i = 25
    /\ dt = 2000
    /\ nrows = ScarpShape[1]
    /\ \E l \in Links : qs[l] # 0

(***************************************************************************)
(* The coupled drivers of component_tutorial_unexpanded.ipynb: the grid    *)
(* and its boundary set-up, the fixed-step loop without the diffuser, the  *)
(* reset of the field, the fixed-step loop with the diffuser, the second   *)
(* reset and the loop over the intervals of the storm generator.  The      *)
(* cells run one after the other; run names the loop that is running, pc   *)
(* the statement that runs next and calls the component calls made so far  *)
(* in the current pass of the loop body.  The parameter file is not part   *)
(* of the notebook, so the grid shape and the times are inputs.  Times are *)
(* in tenths, so that dt = 0.1 is 1.  FlowRouter, FastscapeEroder,         *)
(* LinearDiffuser and PrecipitationDistribution are library code: routing  *)
(* leaves the elevations alone, the eroder leaves at each core node its    *)
(* value or the lowest value around it, and the generator yields pairs     *)
(* until its clock reaches total_t.                                        *)
(***************************************************************************)
MaxLoops == 2

CoupledShapes == {<<3, 3>>, <<3, 4>>}

\* total_t = inputs['total_time'], with and without a remainder
CoupledTotals == {MaxLoops * 1000, MaxLoops * 1000 + 500}

\* dt = inputs['dt']
CoupledDts == {1000, 2000}

\* initial_roughness = np.random.rand(z.size)/100000., in field units
RoughnessChoices(R, C) == {[n \in NodesOf(R, C) |-> (n * k) % 3] : k \in {1, 2}}

\* dt = 0.1
StormDt == 1

\* total_t = 250.
StormTotalT == 2500

\* out_interval = 20.
OutInterval == 200

\* the interval lengths the generator may draw
StormDurations == {1000, 1500}

\* the rainfall rates the generator may draw; 0 is an interstorm
StormRates == {0, 3}

\* mg.nodes_at_left_edge, mg.nodes_at_right_edge, mg.nodes_at_top_edge,
\* mg.nodes_at_bottom_edge
EdgeNodes(edge, R, C) ==
    {n \in NodesOf(R, C) :
        \/ edge = "left" /\ ColOf(n, C) = 0
        \/ edge = "right" /\ ColOf(n, C) = C - 1
        \/ edge = "top" /\ RowOf(n, C) = R - 1
        \/ edge = "bottom" /\ RowOf(n, C) = 0}

\* slip: the top and bottom edges are set first
BoundaryLoopsSwapped ==
    << [edges |-> {"top", "bottom"}, value |-> FIXED_VALUE_BOUNDARY],
       [edges |-> {"left", "right"}, value |-> CLOSED_BOUNDARY] >>

\* the two loops over edges, in the order of the cell
BoundaryLoops ==
    << [edges |-> {"left", "right"}, value |-> CLOSED_BOUNDARY],
       [edges |-> {"top", "bottom"}, value |-> FIXED_VALUE_BOUNDARY] >>

\* for edge in (...): mg.status_at_node[edge] = value
AssignEdges(st, loop, R, C) ==
    [n \in NodesOf(R, C) |->
        IF \E e \in loop.edges : n \in EdgeNodes(e, R, C)
        THEN loop.value
        ELSE st[n]]

\* slip: the diffuser line of the first loop is not commented out
BodyWithoutCommentLost == <<"diffuse", "route", "erode", "uplift", "print">>

\* the body of the loop without diffusion
BodyWithout == <<"route", "erode", "uplift", "print">>

\* slip: the diffuser runs after the eroder
BodyWithDiffuserLate == <<"route", "erode", "diffuse", "uplift", "print">>

\* the body of the loop with diffusion
BodyWith == <<"diffuse", "route", "erode", "uplift", "print">>

\* slip: the components run in every interval
StormBodyUngated(rate) == <<"route", "erode", "diffuse", "uplift", "plot">>

\* slip: the uplift is inside the if
StormBodyUpliftGated(rate) ==
    IF rate > 0
    THEN <<"route", "erode", "diffuse", "uplift", "plot">>
    ELSE <<"plot">>

\* the body of the storm loop for a pair with this rainfall rate
StormBody(rate) ==
    IF rate > 0
    THEN <<"route", "erode", "diffuse", "uplift", "plot">>
    ELSE <<"uplift", "plot">>

\* the statements of one pass of the running loop
Body ==
    CASE run = "without" -> BodyWithout
      [] run = "with" -> BodyWith
      [] OTHER -> StormBody(rainfall_rate)

\* the statement that follows stmt; after the last one the loop head
After(stmt) ==
    LET k == CHOOSE j \in 1..Len(Body) : Body[j] = stmt
    IN  IF k < Len(Body) THEN Body[k + 1] ELSE "for"

\* the time step handed to a component
TimeStep == IF run = "storm" THEN interval_duration ELSE dt

\* the fields sp.run_one_step(dt) may leave
ErosionOutcomes(zz) ==
    {[n \in Nodes |-> IF n \in core_nodes THEN f[n] ELSE zz[n]] :
        f \in {h \in [core_nodes -> UNION {{zz[n], MinOver(ValuesAround(zz, n))} :
                                              n \in core_nodes}] :
                  \A n \in core_nodes :
                      h[n] \in {zz[n], MinOver(ValuesAround(zz, n))}}}

\* slip: the increment is added to the whole array
UpliftedNodesAll == Nodes

\* mg.core_nodes, the index of the uplift increment
UpliftedNodes == core_nodes

\* slip: uplift_rate alone
UpliftAmountNoDuration ==
    IF run = "storm"
    THEN (uplift_rate * Unit) \div UpliftDen
    ELSE uplift_per_step

\* uplift_per_step in the fixed-step loops, uplift_rate * interval_duration
\* in the storm loop, in field units
UpliftAmount ==
    IF run = "storm"
    THEN (uplift_rate * interval_duration * Unit) \div UpliftDen
    ELSE uplift_per_step

\* slip: z = initial_roughness, which rebinds the name and leaves the field
ResetValueRebind(n) == z[n]

\* what z[:] = initial_roughness leaves at node n
ResetValue(n) == initial_roughness[n]

\* never assigned by the coupled cells
coupledFixed == <<nrows, ncols, dx, D, nt, uplift_rate, initial_roughness,
                  uplift_per_step, storeAndFlux>>

\* for edge in (left, right): mg.status_at_node[edge] = CLOSED_BOUNDARY
CloseEdges ==
    /\ pc = "edges1"
    /\ status' = AssignEdges(status, BoundaryLoops[1], nrows, ncols)
    /\ pc' = "edges2"
    /\ UNCHANGED <<z, dt, i, total_t, out, run, calls, stormVars, coupledFixed>>

\* for edge in (top, bottom): mg.status_at_node[edge] = FIXED_VALUE_BOUNDARY
FixEdges ==
    /\ pc = "edges2"
    /\ status' = AssignEdges(status, BoundaryLoops[2], nrows, ncols)
    /\ pc' = "for"
    /\ UNCHANGED <<z, dt, i, total_t, out, run, calls, stormVars, coupledFixed>>

\* for i in range(nt): the next pass begins
ForNext ==
    /\ pc = "for"
    /\ run \in {"without", "with"}
    /\ i < nt
    /\ calls' = <<>>
    /\ pc' = Body[1]
    /\ UNCHANGED <<status, z, dt, i, total_t, out, run, stormVars, coupledFixed>>

\* range(nt) is exhausted; the next cell is the reset
ForEnd ==
    /\ pc = "for"
    /\ run \in {"without", "with"}
    /\ i >= nt
    /\ pc' = "reset"
    /\ UNCHANGED <<status, z, dt, i, total_t, out, run, calls, stormVars, coupledFixed>>

\* fr.run_one_step() or fr.route_flow()
RouteFlow ==
    /\ pc = "route"
    /\ calls' = Append(calls, <<"fr">>)
    /\ pc' = After("route")
    /\ UNCHANGED <<status, z, dt, i, total_t, out, run, stormVars, coupledFixed>>

\* sp.run_one_step(dt) or sp.run_one_step(interval_duration)
Erode ==
    /\ pc = "erode"
    /\ z' \in ErosionOutcomes(z)
    /\ calls' = Append(calls, <<"sp", TimeStep>>)
    /\ pc' = After("erode")
    /\ UNCHANGED <<status, dt, i, total_t, out, run, stormVars, coupledFixed>>

\* lin_diffuse.run_one_step(dt) or lin_diffuse.run_one_step(interval_duration)
Diffuse ==
    /\ pc = "diffuse"
    /\ z' \in DiffuserOutcomes(z)
    /\ calls' = Append(calls, <<"lin_diffuse", TimeStep>>)
    /\ pc' = After("diffuse")
    /\ UNCHANGED <<status, dt, i, total_t, out, run, stormVars, coupledFixed>>

\* mg.at_node['topographic__elevation'][mg.core_nodes] += uplift_per_step or
\* z[mg.core_nodes] += uplift_rate * interval_duration
Uplift ==
    /\ pc = "uplift"
    /\ z' = [n \in Nodes |-> IF n \in UpliftedNodes THEN z[n] + UpliftAmount ELSE z[n]]
    /\ pc' = After("uplift")
    /\ UNCHANGED <<status, dt, i, total_t, out, run, calls, stormVars, coupledFixed>>

\* if i % 20 == 0: print('Completed loop %d' % i), the end of a fixed pass
PrintLoop ==
    /\ pc = "print"
    /\ out' = IF i % 20 = 0 THEN Append(out, i) ELSE out
    /\ i' = i + 1
    /\ pc' = After("print")
    /\ UNCHANGED <<status, z, dt, total_t, run, calls, stormVars, coupledFixed>>

\* z[:] = initial_roughness, and the cell that follows it begins
Reset ==
    /\ pc = "reset"
    /\ z' = [n \in Nodes |-> ResetValue(n)]
    /\ i' = 0
    /\ run' = IF run = "without" THEN "with" ELSE "storm"
    /\ pc' = IF run = "without" THEN "for" ELSE "storms"
    /\ UNCHANGED <<status, dt, total_t, out, calls, stormVars, coupledFixed>>

\* dt = 0.1; total_t = 250.; precip = PrecipitationDistribution(...);
\* out_interval = 20.; last_trunc = total_t
StormSetup ==
    /\ pc = "storms"
    /\ dt' = StormDt
    /\ total_t' = StormTotalT
    /\ elapsed_time' = 0
    /\ last_trunc' = StormTotalT
    /\ pc' = "for"
    /\ UNCHANGED <<status, z, i, out, run, calls, interval_duration, rainfall_rate,
                   coupledFixed>>

\* the generator yields the next (interval_duration, rainfall_rate); the
\* last interval ends at total_t
YieldInterval ==
    /\ pc = "for"
    /\ run = "storm"
    /\ elapsed_time < total_t
    /\ \E d \in StormDurations, r \in StormRates :
          LET len == IF elapsed_time + d > total_t THEN total_t - elapsed_time ELSE d
          IN  /\ interval_duration' = len
              /\ rainfall_rate' = r
              /\ elapsed_time' = elapsed_time + len
              /\ pc' = StormBody(r)[1]
    /\ calls' = <<>>
    /\ UNCHANGED <<status, z, dt, i, total_t, out, run, last_trunc, coupledFixed>>

\* the generator stops
GeneratorStops ==
    /\ pc = "for"
    /\ run = "storm"
    /\ elapsed_time >= total_t
    /\ pc' = "done"
    /\ UNCHANGED <<status, z, dt, i, total_t, out, run, calls, stormVars, coupledFixed>>

\* this_trunc = precip.elapsed_time // out_interval; if it differs from
\* last_trunc the time is printed and kept
PlotProfile ==
    /\ pc = "plot"
    /\ LET this_trunc == elapsed_time \div OutInterval
       IN  /\ out' = IF this_trunc # last_trunc
                     THEN Append(out, OutInterval * this_trunc)
                     ELSE out
           /\ last_trunc' = IF this_trunc # last_trunc THEN this_trunc ELSE last_trunc
    /\ pc' = After("plot")
    /\ UNCHANGED <<status, z, dt, i, total_t, run, calls, interval_duration,
                   rainfall_rate, elapsed_time, coupledFixed>>

NextCoupled ==
    \/ CloseEdges \/ FixEdges \/ ForNext \/ ForEnd \/ RouteFlow \/ Erode
    \/ Diffuse \/ Uplift \/ PrintLoop \/ Reset \/ StormSetup \/ YieldInterval
    \/ GeneratorStops \/ PlotProfile

\* the state after z += initial_roughness
InitCoupled ==
    \E shape \in CoupledShapes, total \in CoupledTotals, step \in CoupledDts :
    \E r \in RoughnessChoices(shape[1], shape[2]) :
        /\ nrows = shape[1]
        /\ ncols = shape[2]
        /\ dx = DriverDx
        /\ status = DefaultStatus(shape[1], shape[2])
        /\ initial_roughness = r
        /\ z = [n \in NodesOf(shape[1], shape[2]) |-> 0 + r[n]]
        /\ D = DriverD
        /\ total_t = total
        /\ dt = step
        /\ uplift_rate = DriverUpliftRate
        /\ nt = StepCount(total, step)
        /\ uplift_per_step = (DriverUpliftRate * step * Unit) \div UpliftDen
        /\ i = 0
        /\ out = <<>>
        /\ run = "without"
        /\ calls = <<>>
        /\ pc = "edges1"
        /\ interval_duration = 0
        /\ rainfall_rate = 0
        /\ elapsed_time = 0
        /\ last_trunc = 0
        /\ qs = Unbound
        /\ g = Unbound
        /\ dqsdx = Unbound
        /\ dzdt = Unbound
        /\ NoStore

(***************************************************************************)
(* Properties of the coupled drivers.                                      *)
(***************************************************************************)
OnSideEdge(n) == ColOf(n, ncols) = 0 \/ ColOf(n, ncols) = ncols - 1

OnEndEdge(n) == RowOf(n, ncols) = 0 \/ RowOf(n, ncols) = nrows - 1

\* C23: the boundary set-up first sets every node of the left and right
\* edges to closed and then every node of the top and bottom edges to fixed
\* value, and nothing else assigns a status; once the set-up is over the
\* four corners, which are in both groups, are fixed value, the other nodes
\* of the left and right edges are closed, the other nodes of the top and
\* bottom edges are fixed value and the interior nodes are core nodes as
\* before.
C23_SetupOrder ==
    /\ [][/\ pc = "edges1" =>
                /\ pc' = "edges2"
                /\ \A n \in Nodes :
                      status'[n] = IF OnSideEdge(n) THEN CLOSED_BOUNDARY ELSE status[n]
          /\ pc = "edges2" =>
                /\ pc' = "for"
                /\ \A n \in Nodes :
                      status'[n] = IF OnEndEdge(n) THEN FIXED_VALUE_BOUNDARY ELSE status[n]
          /\ pc' = "edges2" => pc = "edges1"
          /\ pc \notin {"edges1", "edges2"} => status' = status]_vars
    /\ [](pc \notin {"edges1", "edges2"} =>
            /\ \A n \in Nodes :
                  status[n] = IF OnEndEdge(n) THEN FIXED_VALUE_BOUNDARY
                              ELSE IF OnSideEdge(n) THEN CLOSED_BOUNDARY
                              ELSE CORE_NODE
            /\ \A n \in Nodes : ~IsPerimeter(n, nrows, ncols) =>
                  status[n] = DefaultStatus(nrows, ncols)[n]
            /\ status = DriverStatus(nrows, ncols))

\* the set-up is over on the 3 x 4 grid: the corners are fixed value, the
\* middle nodes of the left and right edges closed, the two interior nodes core
C23_Witness ==
    /\ pc = "for"
    /\ run = "without"
    /\ i = 0
    /\ ncols = 4
    /\ \A n \in {0, 3, 8, 11} : status[n] = FIXED_VALUE_BOUNDARY
    /\ status[4] = CLOSED_BOUNDARY /\ status[7] = CLOSED_BOUNDARY
    /\ core_nodes = {5, 6}

\* C22: in the loops that add uplift the increment goes to the core nodes
\* only: every closed and every fixed-value boundary node holds, after every
\* pass of diffusion followed by uplift as at any other moment, the value it
\* had before the loop started, and the uplift statement of a fixed-step
\* pass raises every core node by exactly uplift_rate * dt on top of what
\* the components left, and no other node.
C22_UpliftOnCore ==
    /\ [](\A n \in Nodes :
            status[n] \in {CLOSED_BOUNDARY, FIXED_VALUE_BOUNDARY} =>
                z[n] = initial_roughness[n])
    /\ [][(pc = "uplift" /\ run \in {"without", "with"}) =>
            /\ \A n \in core_nodes :
                  z'[n] = z[n] + (uplift_rate * dt * Unit) \div UpliftDen
            /\ \A n \in Nodes \ core_nodes : z'[n] = z[n]]_vars

\* the second pass of the loop with diffusion has added its uplift: the
\* diffuser ran in it, a core node stands two increments above its start,
\* and a closed and a fixed-value node still hold their non-zero roughness
C22_Witness ==
    /\ run = "with"
    /\ pc = "print"
    /\ i = 1
    /\ calls[1] = <<"lin_diffuse", dt>>
    /\ \E n \in core_nodes : z[n] = initial_roughness[n] + 2 * uplift_per_step
    /\ \E n \in Nodes : status[n] = CLOSED_BOUNDARY /\ z[n] # 0
    /\ \E n \in Nodes : status[n] = FIXED_VALUE_BOUNDARY /\ z[n] # 0

\* the component calls of one complete pass of a fixed-step loop
CallsWithout == << <<"fr">>, <<"sp", dt>> >>

CallsWith == << <<"lin_diffuse", dt>>, <<"fr">>, <<"sp", dt>> >>

C25_IdenticalStart ==
    /\ []((run = "without" /\ pc \in {"edges1", "edges2"}) => z = initial_roughness)
    /\ []((pc = "for" /\ i = 0 /\ run \in {"without", "with"}) =>
            /\ z = initial_roughness
            /\ status = DriverStatus(nrows, ncols))
    /\ []((pc = "storms") => z = initial_roughness)
    /\ [][/\ initial_roughness' = initial_roughness
          /\ pc = "reset" =>
                /\ \A n \in Nodes : z'[n] = initial_roughness[n]
                /\ status' = status]_vars

\* the second run is about to start from the saved field, after a first run
\* of two passes that had raised the core nodes
C25_Witness ==
    /\ pc = "for"
    /\ run = "with"
    /\ i = 0
    /\ out = <<0>>
    /\ nt = 2
    /\ z = initial_roughness
    /\ \E n \in Nodes \ core_nodes : z[n] # 0
    /\ \E n \in core_nodes : z[n] # 0

\* the component calls of a storm interval
StormCalls ==
    << <<"fr">>, <<"sp", interval_duration>>, <<"lin_diffuse", interval_duration>> >>

\* uplift_rate * t, in field units
UpliftOver(t) == (uplift_rate * t * Unit) \div UpliftDen

\* C26: for every (interval_duration, rainfall_rate) pair the generator
\* yields, flow routing, the stream-power eroder and the diffuser run, in
\* this order and with the interval's duration as time step, if and only if
\* rainfall_rate > 0, while the increment uplift_rate * interval_duration is
\* added to the core nodes in every interval, storm or interstorm, once,
\* before the next pair is drawn; the generator's clock is the sum of the
\* yielded durations, so the uplift added up to the end of the loop is
\* uplift_rate times that sum: no core node ends higher than the highest
\* initial value plus that amount.
C26_StormGating ==
    /\ [](run = "storm" =>
            /\ pc \in {"uplift", "plot"} =>
                  calls = IF rainfall_rate > 0 THEN StormCalls ELSE <<>>
            /\ pc \in {"route", "erode", "diffuse"} => rainfall_rate > 0
            /\ pc = "erode" => calls = << <<"fr">> >>
            /\ pc = "diffuse" => calls = << <<"fr">>, <<"sp", interval_duration>> >>
            /\ elapsed_time <= total_t
            /\ \A n \in core_nodes :
                  z[n] <= TopOver({initial_roughness[m] : m \in Nodes})
                             + UpliftOver(elapsed_time))
    /\ [][(run = "storm" /\ pc # "storms") =>
            /\ (pc = "for" /\ pc' # "done") =>
                  /\ interval_duration' > 0
                  /\ elapsed_time' = elapsed_time + interval_duration'
                  /\ calls' = <<>>
                  /\ pc' = IF rainfall_rate' > 0 THEN "route" ELSE "uplift"
            /\ pc # "for" => /\ elapsed_time' = elapsed_time
                             /\ interval_duration' = interval_duration
                             /\ rainfall_rate' = rainfall_rate
            /\ pc = "uplift" =>
                  /\ pc' = "plot"
                  /\ \A n \in core_nodes :
                        z'[n] = z[n] + UpliftOver(interval_duration)
                  /\ \A n \in Nodes \ core_nodes : z'[n] = z[n]
            /\ pc' = "plot" => pc = "uplift"
            /\ pc' = "for" => pc = "plot"
            /\ pc' = "done" => (pc = "for" /\ elapsed_time = total_t)]_vars

\* the generator has stopped at 250 after two intervals of 100 and a storm
\* of 50 in which the three components were called with 50 as time step; a
\* core node stands uplift_rate * 250 above its initial value
C26_Witness ==
    /\ run = "storm"
    /\ pc = "done"
    /\ elapsed_time = StormTotalT
    /\ interval_duration = 500
    /\ rainfall_rate > 0
    /\ calls = << <<"fr">>, <<"sp", 500>>, <<"lin_diffuse", 500>> >>
    /\ out = <<0, 0, 1000, 2000, 2400>>
    /\ \E n \in core_nodes : z[n] = initial_roughness[n] + UpliftOver(2500)

Spec == Init /\ [][Next]_vars

SpecClosed == InitClosed /\ [][Next]_vars

SpecPerturb == InitPerturb /\ [][Next]_vars

SpecStore == InitStore /\ [][NextStore]_vars

SpecDriver == InitDriver /\ [][NextDriver]_vars

SpecCoupled == InitCoupled /\ [][NextCoupled]_vars

\* the statements of a notebook cell run one after the other until the cell ends
SpecScarp == InitScarp /\ [][Next]_vars /\ WF_vars(Next)

====
